---- MODULE Spec2Model ----
(***************************************************************************)
(* A model of internal/logger/logger.go of tbarker25/http-logger: the      *)
(* reader loop of Run, the background goroutine started by watch, the two  *)
(* periodic handlers printUpdate and checkHighTraffic, and the line parser *)
(* parseLineEntry.                                                         *)
(*                                                                         *)
(* Two goroutines run concurrently: the reader (the body of Run) and the   *)
(* scheduler (the closure of watch).  Every access to a field of the       *)
(* logger struct is a step of its own, so that the accesses the code makes *)
(* outside sectionHitsLock interleave as the Go memory model allows.       *)
(***************************************************************************)
EXTENDS Integers, Sequences, FiniteSets, TLC

\* ---------------------------------------------------------------- bounds

\* Lines the input stream delivers before end-of-stream, at most.
MaxLines == 3

\* Largest HighTrafficThreshold a configuration is drawn with.
MaxThreshold == 2

\* Most hits a section of a snapshot holds when printUpdate is taken by itself.
MaxCount == 2

\* Longest request path the parser is given when it is taken by itself.
MaxPathLen == 4

\* ------------------------------------------------------------- characters

\* Bytes of a line, as their ASCII codes (sort.Strings compares bytewise).
Slash == 47
Dash == 45
Digit0 == 48
Digit9 == 57
ChA == 97
ChB == 98
ChC == 99
ChP == 112

\* time.Second, in the unit the intervals are counted in (milliseconds).
Second == 1000

\* ------------------------------------------------------------------ input

\* A line of the input: the request path, the size field, and whether the
\* other fields (client, user, time stamp, method, protocol, status) have
\* the shape commonLogFormatPattern asks for, as writeTestLine writes them.
Line(path, size, clf) == [path |-> path, size |-> size, clf |-> clf]

Lines ==
    { Line(<<Slash, ChA>>, <<Digit0 + 5>>, TRUE),
      Line(<<Slash, ChB, Slash, ChP>>, <<Digit0 + 5>>, TRUE),
      Line(<<Slash>>, <<Digit0 + 5>>, TRUE) }

\* ReadBytes returned no bytes.
NoLine == Line(<< >>, << >>, FALSE)

\* What the input may hold after its last newline: nothing, or a line that
\* no newline ends.  ReadBytes returns it together with io.EOF.
Tails == { NoLine, Line(<<Slash, ChA>>, <<Digit0 + 5>>, TRUE) }

\* ----------------------------------------------------------------- parser

IsDigit(c) == c >= Digit0 /\ c <= Digit9

\* Length of the longest prefix of s[from..] made of bytes other than '/'
\* (the path holds no space and no quote): the greedy [^/ "]+ .
RECURSIVE SegmentLen(_, _)
SegmentLen(s, from) ==
    IF from > Len(s) \/ s[from] = Slash THEN 0
    ELSE 1 + SegmentLen(s, from + 1)

\* Length of the longest prefix of s[from..] made of digits: the greedy [0-9]+ .
RECURSIVE DigitsLen(_, _)
DigitsLen(s, from) ==
    IF from > Len(s) \/ ~IsDigit(s[from]) THEN 0
    ELSE 1 + DigitsLen(s, from + 1)

\* The group ((/?[^/ "]+)[^ "]*)? followed by " HTTP/": the submatches
\* Resource and Section of a path, or matched = FALSE.  An empty path skips
\* the optional group; a path the group cannot match cannot be skipped.
MatchPath(path) ==
    IF path = <<>>
    THEN [matched |-> TRUE, Section |-> <<>>, Resource |-> <<>>]
    ELSE LET lead == IF path[1] = Slash THEN 1 ELSE 0
             seg  == SegmentLen(path, lead + 1)
         IN IF seg = 0
            THEN [matched |-> FALSE, Section |-> <<>>, Resource |-> <<>>]
            ELSE [matched |-> TRUE,
                  Section |-> SubSeq(path, 1, lead + seg),
                  Resource |-> path]

\* The group ([0-9]+|-) at the start of the size field.
MatchSize(size) ==
    IF size = <<>> THEN [matched |-> FALSE, text |-> <<>>]
    ELSE IF IsDigit(size[1])
         THEN [matched |-> TRUE, text |-> SubSeq(size, 1, DigitsLen(size, 1))]
         ELSE IF size[1] = Dash
              THEN [matched |-> TRUE, text |-> <<Dash>>]
              ELSE [matched |-> FALSE, text |-> <<>>]

\* A Go int is wider than the integers of the checker: an int is held as its
\* decimal digits, the most significant first and without leading zeros.
Zero == <<0>>

\* The largest int of a 64-bit build, 1<<63 - 1.
MaxInt == <<9, 2, 2, 3, 3, 7, 2, 0, 3, 6, 8, 5, 4, 7, 7, 5, 8, 0, 7>>

\* The int that a run of digit bytes spells.
RECURSIVE DigitsValue(_)
DigitsValue(s) ==
    IF s = <<>> THEN Zero
    ELSE IF s[1] = Digit0 /\ Len(s) > 1 THEN DigitsValue(Tail(s))
    ELSE [i \in 1..Len(s) |-> s[i] - Digit0]

\* a > b, for two ints.
RECURSIVE IntGreater(_, _)
IntGreater(a, b) ==
    IF Len(a) # Len(b) THEN Len(a) > Len(b)
    ELSE IF a = <<>> THEN FALSE
    ELSE IF a[1] # b[1] THEN a[1] > b[1]
    ELSE IntGreater(Tail(a), Tail(b))

\* strconv.Atoi on the text of a submatch: a run of digits is its value, a
\* lone "-" is a syntax error, a value beyond the largest int a range error.
Atoi(s) ==
    IF s = <<>> \/ DigitsLen(s, 1) # Len(s)
    THEN [err |-> TRUE, value |-> Zero]
    ELSE IF IntGreater(DigitsValue(s), MaxInt)
         THEN [err |-> TRUE, value |-> MaxInt]
         ELSE [err |-> FALSE, value |-> DigitsValue(s)]

\* The nil *commonLogEntry returned with an error.
NilEntry == [ok |-> FALSE, Section |-> <<>>, Resource |-> <<>>, Size |-> Zero]

parseLineEntry(l) ==
    LET p == MatchPath(l.path)
        s == MatchSize(l.size)
    IN IF ~(l.clf /\ p.matched /\ s.matched) THEN NilEntry
       ELSE IF Atoi(s.text).err THEN NilEntry
            ELSE [ok |-> TRUE, Section |-> p.Section,
                  Resource |-> p.Resource, Size |-> Atoi(s.text).value]


\* ------------------------------------------------------------ map helpers

\* A map[string]int: a function from the keys present to their counts.
EmptyMap == << >>

\* m[k] of a Go map: the zero value for a key that is absent.
MapGet(m, k) == IF k \in DOMAIN m THEN m[k] ELSE 0

\* m[k] = v of a Go map.
MapSet(m, k, v) == [x \in (DOMAIN m) \cup {k} |-> IF x = k THEN v ELSE m[x]]

\* Sum of the counts of a map.
RECURSIVE MapSum(_)
MapSum(m) ==
    IF DOMAIN m = {} THEN 0
    ELSE LET k == CHOOSE x \in DOMAIN m : TRUE
         IN m[k] + MapSum([x \in (DOMAIN m) \ {k} |-> m[x]])

\* ------------------------------------------------------------------ state

VARIABLES
    Config,                 \* the Config Run was called with
    sectionHitsLock,        \* holder of logger.sectionHitsLock
    sectionHits,            \* logger.sectionHits
    totalTraffic,           \* logger.totalTraffic
    isHighTrafficTriggered, \* logger.isHighTrafficTriggered
    updateTicker,           \* a tick waits in the channel of time.Tick(UpdateInterval)
    highTrafficTicker,      \* a tick waits in the channel of time.Tick(HighTrafficInterval)
    pcR,                    \* where the goroutine running Run is
    nread,                  \* lines the reader has read
    line,                   \* Run's local line: the bytes ReadBytes returned last
    entry,                  \* Run's local entry
    reg,                    \* the value the reader loaded for the ++ it is executing
    pcS,                    \* where the goroutine started by watch is
    oldSectionHits,         \* printUpdate's local oldSectionHits
    out,                    \* the message the last step wrote to Config.Output
    lastAlert,              \* kind of the last high-traffic message written, if any
    warned,                 \* WARNING lines written for the line being ingested
    hitsPerSecond,          \* checkHighTraffic's local hitsPerSecond, in hundredths
    chk,                    \* what the running (or last) checkHighTraffic saw and did
    snapshots,              \* sum of the counts of every snapshot printUpdate took
    observed,               \* sum of the totals the completed traffic checks saw
    winCur,                 \* lines of the window the next reset closes
    winNext,                \* lines of the window the running check opened
    winOver                 \* a window that has closed held more lines than the threshold

vars == << Config, sectionHitsLock, sectionHits, totalTraffic,
           isHighTrafficTriggered, updateTicker, highTrafficTicker,
           pcR, nread, line, entry, reg, pcS, oldSectionHits, out, lastAlert,
           warned, chk, hitsPerSecond, snapshots, observed,
           winCur, winNext, winOver >>

sharedVars == << sectionHitsLock, sectionHits, totalTraffic,
                 isHighTrafficTriggered >>
readerVars == << pcR, nread, line, entry, reg, warned >>
schedVars  == << pcS, oldSectionHits, chk, hitsPerSecond >>
tickVars   == << updateTicker, highTrafficTicker >>
windowGhosts  == << winCur, winNext, winOver >>

\* Values of UpdateInterval and HighTrafficInterval: disabled, or a second.
Intervals == {0, Second}

Configs ==
    [UpdateInterval : Intervals, HighTrafficInterval : Intervals,
     HighTrafficThreshold : 0..MaxThreshold]

NoMessage == [kind |-> "none"]
NoCheck == [flag0 |-> FALSE, obs1 |-> -1, obs2 |-> -1, msgs |-> <<>>,
            running |-> FALSE]

\* Run, lines 40-47: the logger struct, and watch() before the loop.
Init ==
    /\ Config \in Configs
    /\ sectionHitsLock = "free"
    /\ sectionHits = EmptyMap
    /\ totalTraffic = 0
    /\ isHighTrafficTriggered = FALSE
    /\ updateTicker = FALSE
    /\ highTrafficTicker = FALSE
    /\ pcR = "read"
    /\ nread = 0
    /\ line = NoLine
    /\ entry = NilEntry
    /\ reg = 0
    /\ pcS = "select"
    /\ oldSectionHits = EmptyMap
    /\ out = NoMessage
    /\ lastAlert = "none"
    /\ warned = 0
    /\ chk = NoCheck
    /\ hitsPerSecond = 0
    /\ snapshots = 0
    /\ observed = 0
    /\ winCur = 0
    /\ winNext = 0
    /\ winOver = FALSE

\* fmt.Fprintf / fmt.Fprintln on Config.Output: out is the message of the
\* step, lastAlert remembers the last high-traffic message.
Emit(msg) ==
    /\ out' = msg
    /\ lastAlert' = IF msg.kind \in {"triggered", "resolved"}
                    THEN msg.kind ELSE lastAlert

\* A step that writes nothing to Config.Output.
Silent ==
    /\ out' = NoMessage
    /\ lastAlert' = lastAlert

\* A mutex that excludes nobody, as if Lock were left out.
LockFree_Always(lock) == TRUE

\* sync.Mutex: Lock proceeds when nobody holds the mutex.
LockFree(lock) == lock = "free"

\* ------------------------------------------------------------- the timers

\* A ticker that also ticks when its interval is zero ("fire every tick").
TickUpdate_ZeroFires ==
    /\ ~updateTicker
    /\ updateTicker' = TRUE
    /\ Silent
    /\ UNCHANGED << Config, sharedVars, readerVars, schedVars, highTrafficTicker,
                    snapshots, observed, windowGhosts >>

\* The runtime timer of time.Tick(d): a nil channel for d = 0, else a channel
\* of capacity one that is sent a tick every d (dropped when the channel is
\* full).
TickUpdate ==
    /\ Config.UpdateInterval > 0
    /\ ~updateTicker
    /\ updateTicker' = TRUE
    /\ Silent
    /\ UNCHANGED << Config, sharedVars, readerVars, schedVars, highTrafficTicker,
                    snapshots, observed, windowGhosts >>

TickHighTraffic ==
    /\ Config.HighTrafficInterval > 0
    /\ ~highTrafficTicker
    /\ highTrafficTicker' = TRUE
    /\ Silent
    /\ UNCHANGED << Config, sharedVars, readerVars, schedVars, updateTicker,
                    snapshots, observed, windowGhosts >>

\* ------------------------------------------------------------- the reader

InFlight == pcR \in {"inc_load", "inc_store"}

\* Run, lines 50-62: ReadBytes returns a line, TrimSpace, parseLineEntry,
\* and the WARNING of a line that does not parse.  There is no continue
\* after the warning: the loop body goes on to line 64.
ReadLine(l) ==
    /\ pcR = "read"
    /\ nread < MaxLines
    /\ nread' = nread + 1
    /\ line' = l
    /\ entry' = parseLineEntry(l)
    /\ IF entry'.ok
       THEN /\ warned' = 0
            /\ Silent
       ELSE /\ warned' = 1
            /\ Emit([kind |-> "warning"])
    /\ pcR' = "inc_load"
    /\ winCur' = IF winOver THEN 0 ELSE winCur + 1
    /\ winNext' = IF chk.running /\ ~winOver THEN winNext + 1 ELSE winNext
    /\ UNCHANGED << Config, sharedVars, reg, schedVars, tickVars,
                    snapshots, observed, winOver >>

\* Run, lines 50-53 and 47: ReadBytes returns io.EOF, with the bytes that
\* follow the last newline in line; Run returns without looking at them, and
\* its deferred stopWatcher() is due.
ReadEOF(tail) ==
    /\ pcR = "read"
    /\ line' = tail
    /\ pcR' = "stop_return"
    /\ Silent
    /\ UNCHANGED << Config, sharedVars, nread, entry, reg, warned, schedVars,
                    tickVars, snapshots, observed,
                    windowGhosts >>

\* Run, line 64: logger.totalTraffic++ is a load and a store, outside any lock.
IncLoad ==
    /\ pcR = "inc_load"
    /\ reg' = totalTraffic
    /\ pcR' = "inc_store"
    /\ Silent
    /\ UNCHANGED << Config, sharedVars, nread, line, entry, warned, schedVars,
                    tickVars, snapshots, observed,
                    windowGhosts >>

IncStore ==
    /\ pcR = "inc_store"
    /\ totalTraffic' = reg + 1
    /\ pcR' = "lock"
    /\ reg' = 0
    /\ Silent
    /\ UNCHANGED << Config, sectionHitsLock, sectionHits,
                    isHighTrafficTriggered, nread, line, entry, warned,
                    schedVars, tickVars, snapshots, observed, windowGhosts >>

\* Run, line 65: logger.sectionHitsLock.Lock().
ReaderLock ==
    /\ pcR = "lock"
    /\ LockFree(sectionHitsLock)
    /\ sectionHitsLock' = "reader"
    /\ pcR' = "hit_load"
    /\ Silent
    /\ UNCHANGED << Config, sectionHits, totalTraffic, isHighTrafficTriggered,
                    nread, line, entry, reg, warned, schedVars, tickVars, snapshots,
                    observed, windowGhosts >>

\* Run, line 66: logger.sectionHits[entry.Section]++ evaluates entry.Section
\* and loads the count.  entry is nil after a parse error: the dereference
\* panics, with the mutex held, and the deferred stopWatcher() is due.
HitLoad ==
    /\ pcR = "hit_load"
    /\ IF entry.ok
       THEN /\ reg' = MapGet(sectionHits, entry.Section)
            /\ pcR' = "hit_store"
       ELSE /\ reg' = reg
            /\ pcR' = "stop_panic"
    /\ Silent
    /\ UNCHANGED << Config, sharedVars, nread, line, entry, warned, schedVars,
                    tickVars, snapshots, observed,
                    windowGhosts >>

HitStore ==
    /\ pcR = "hit_store"
    /\ sectionHits' = MapSet(sectionHits, entry.Section, reg + 1)
    /\ pcR' = "unlock"
    /\ reg' = 0
    /\ Silent
    /\ UNCHANGED << Config, sectionHitsLock, totalTraffic,
                    isHighTrafficTriggered, nread, line, entry, warned,
                    schedVars, tickVars, snapshots,
                    observed, windowGhosts >>

\* Run, line 67: logger.sectionHitsLock.Unlock().
ReaderUnlock ==
    /\ pcR = "unlock"
    /\ sectionHitsLock' = "free"
    /\ pcR' = "read"
    /\ line' = NoLine
    /\ entry' = NilEntry
    /\ Silent
    /\ UNCHANGED << Config, sectionHits, totalTraffic, isHighTrafficTriggered,
                    nread, reg, warned, schedVars, tickVars, snapshots,
                    observed, windowGhosts >>

Reader ==
    \/ \E l \in Lines : ReadLine(l)
    \/ \E tail \in Tails : ReadEOF(tail)
    \/ IncLoad
    \/ IncStore
    \/ ReaderLock
    \/ HitLoad
    \/ HitStore
    \/ ReaderUnlock

\* --------------------------------------------------- the report's helpers

\* Go's string order: bytewise, a proper prefix first.
RECURSIVE StringLess(_, _)
StringLess(a, b) ==
    IF b = <<>> THEN FALSE
    ELSE IF a = <<>> THEN TRUE
    ELSE IF a[1] # b[1] THEN a[1] < b[1]
    ELSE StringLess(Tail(a), Tail(b))

\* Insert x into the ascending sequence s.
RECURSIVE InsertSorted(_, _)
InsertSorted(s, x) ==
    IF s = <<>> THEN <<x>>
    ELSE IF StringLess(x, s[1]) THEN <<x>> \o s
    ELSE <<s[1]>> \o InsertSorted(Tail(s), x)

\* sort.Strings.
RECURSIVE SortStrings(_)
SortStrings(s) ==
    IF s = <<>> THEN <<>>
    ELSE InsertSorted(SortStrings(Tail(s)), s[1])

\* The orders in which range may visit the keys of a map.
RangeOrders(m) ==
    { o \in [1..Cardinality(DOMAIN m) -> DOMAIN m] :
        \A i, j \in DOMAIN o : i # j => o[i] # o[j] }

\* printUpdate, lines 137-147: the loop over oldSectionHits, visiting the
\* keys in the given order, from the i-th on.
RECURSIVE ScanSections(_, _, _, _, _)
ScanSections(m, order, i, maxHits, activeSections) ==
    IF i > Len(order) THEN [maxHits |-> maxHits, activeSections |-> activeSections]
    ELSE LET section == order[i]
             hits == m[section]
             max1 == IF hits > maxHits THEN hits ELSE maxHits
             act1 == IF hits > maxHits THEN <<>> ELSE activeSections
             act2 == IF max1 = hits THEN Append(act1, section) ELSE act1
         IN ScanSections(m, order, i + 1, max1, act2)

\* 2^e modulo 25.
RECURSIVE Pow2Mod25(_)
Pow2Mod25(e) == IF e = 0 THEN 1 ELSE (2 * Pow2Mod25(e - 1)) % 25

\* The e with 2^52 <= x * 2^e / 25 < 2^53, counted up from e for x * 2^acc:
\* the scaling that makes x / 25 a 53-bit significand.
RECURSIVE SignificandShift(_, _)
SignificandShift(x, e) ==
    IF x < 25 THEN SignificandShift(2 * x, e + 1)
    ELSE IF x >= 50 THEN SignificandShift(x \div 2, e - 1)
    ELSE e

\* The float64 nearest to m / 200 is greater than m / 200, for an odd m that
\* 25 does not divide (m / 200 is then no float64, and the float64 division
\* returns one of its two neighbours): the remainder of the 53-bit
\* significand of m / 25 is more than half.
FloatAbove(m) ==
    2 * (((m % 25) * Pow2Mod25(SignificandShift(m, 52))) % 25) > 25

\* The %0.2f of float64(hits) * float64(time.Second) / float64(interval), in
\* hundredths of a hit per second.  The division gives the float64 nearest
\* to the quotient, and %0.2f the hundredth nearest to that float64: the
\* hundredth nearest to the quotient, and for a quotient halfway between
\* two hundredths, (2q+1)/200, the even one when a float64 holds it (25
\* divides 2q+1, as for 0.125), else the one on the side of the float64.
HitsPerSecond(hits, interval) ==
    LET n == 100 * hits * Second
        q == n \div interval
        r == n % interval
    IN IF 2 * r < interval THEN q
       ELSE IF 2 * r > interval THEN q + 1
       ELSE IF (2 * q + 1) % 25 = 0
            THEN (IF q % 2 = 0 THEN q ELSE q + 1)
            ELSE (IF FloatAbove(2 * q + 1) THEN q + 1 ELSE q)

\* A report that leaves out sort.Strings.
UpdateMessage_Unsorted(m, order, interval) ==
    LET scan == ScanSections(m, order, 1, 0, <<>>)
    IN IF scan.maxHits = 0
       THEN [kind |-> "nohits"]
       ELSE [kind |-> "busiest",
             sections |-> scan.activeSections,
             rate |-> HitsPerSecond(scan.maxHits, interval)]

\* A report whose rate is taken from all the hits of the window.
UpdateMessage_TotalRate(m, order, interval) ==
    LET scan == ScanSections(m, order, 1, 0, <<>>)
    IN IF scan.maxHits = 0
       THEN [kind |-> "nohits"]
       ELSE [kind |-> "busiest",
             sections |-> SortStrings(scan.activeSections),
             rate |-> HitsPerSecond(MapSum(m), interval)]

\* printUpdate, lines 137-163: the message for a snapshot.
UpdateMessage(m, order, interval) ==
    LET scan == ScanSections(m, order, 1, 0, <<>>)
    IN IF scan.maxHits = 0
       THEN [kind |-> "nohits"]
       ELSE [kind |-> "busiest",
             sections |-> SortStrings(scan.activeSections),
             rate |-> HitsPerSecond(scan.maxHits, interval)]

\* The first comparison with >= in place of > .
ExceedsThreshold_AtLeast(total, threshold) == total >= threshold

\* checkHighTraffic, lines 170 and 185: the two comparisons with the threshold.
ExceedsThreshold(total, threshold) == total > threshold

WithinThreshold(total, threshold) == total <= threshold

\* ---------------------------------------------------------- the scheduler

\* watch, lines 111-113: select receives from updateTicker.
RecvUpdate ==
    /\ pcS = "select"
    /\ updateTicker
    /\ updateTicker' = FALSE
    /\ pcS' = "pu_lock"
    /\ Silent
    /\ UNCHANGED << Config, sharedVars, readerVars, oldSectionHits, chk, hitsPerSecond,
                    highTrafficTicker, snapshots, observed, windowGhosts >>

\* printUpdate, line 132.
PuLock ==
    /\ pcS = "pu_lock"
    /\ LockFree(sectionHitsLock)
    /\ sectionHitsLock' = "scheduler"
    /\ pcS' = "pu_swap"
    /\ Silent
    /\ UNCHANGED << Config, sectionHits, totalTraffic, isHighTrafficTriggered,
                    readerVars, oldSectionHits, chk, hitsPerSecond, tickVars, snapshots,
                    observed, windowGhosts >>

\* A swap that keeps the live map in place: the window is not reset.
PuSwap_KeepsMap ==
    /\ pcS = "pu_swap"
    /\ oldSectionHits' = sectionHits
    /\ sectionHits' = sectionHits
    /\ snapshots' = snapshots + MapSum(sectionHits)
    /\ pcS' = "pu_unlock"
    /\ Silent
    /\ UNCHANGED << Config, sectionHitsLock, totalTraffic,
                    isHighTrafficTriggered, readerVars, chk, hitsPerSecond, tickVars,
                    observed, windowGhosts >>

\* A swap that also starts the traffic window afresh.
PuSwap_ResetsTotal ==
    /\ pcS = "pu_swap"
    /\ oldSectionHits' = sectionHits
    /\ sectionHits' = EmptyMap
    /\ totalTraffic' = 0
    /\ snapshots' = snapshots + MapSum(sectionHits)
    /\ pcS' = "pu_unlock"
    /\ Silent
    /\ UNCHANGED << Config, sectionHitsLock,
                    isHighTrafficTriggered, readerVars, chk, hitsPerSecond, tickVars,
                    observed, windowGhosts >>

\* printUpdate, lines 133-134: keep the map, install an empty one.
PuSwap ==
    /\ pcS = "pu_swap"
    /\ oldSectionHits' = sectionHits
    /\ sectionHits' = EmptyMap
    /\ snapshots' = snapshots + MapSum(sectionHits)
    /\ pcS' = "pu_unlock"
    /\ Silent
    /\ UNCHANGED << Config, sectionHitsLock, totalTraffic,
                    isHighTrafficTriggered, readerVars, chk, hitsPerSecond, tickVars,
                    observed, windowGhosts >>

\* printUpdate, line 135.
PuUnlock ==
    /\ pcS = "pu_unlock"
    /\ sectionHitsLock' = "free"
    /\ pcS' = "pu_report"
    /\ Silent
    /\ UNCHANGED << Config, sectionHits, totalTraffic, isHighTrafficTriggered,
                    readerVars, oldSectionHits, chk, hitsPerSecond, tickVars, snapshots,
                    observed, windowGhosts >>

\* printUpdate, lines 137-163: scan the snapshot and write the report.
PuReport ==
    /\ pcS = "pu_report"
    /\ \E order \in RangeOrders(oldSectionHits) :
          Emit(UpdateMessage(oldSectionHits, order, Config.UpdateInterval))
    /\ pcS' = "select"
    /\ oldSectionHits' = EmptyMap
    /\ UNCHANGED << Config, sharedVars, readerVars, chk, hitsPerSecond,
                    tickVars, snapshots, observed, windowGhosts >>

\* watch, lines 115-116: select receives from highTrafficTicker.
RecvHighTraffic ==
    /\ pcS = "select"
    /\ highTrafficTicker
    /\ highTrafficTicker' = FALSE
    /\ pcS' = "cht_if1"
    /\ chk' = [flag0 |-> isHighTrafficTriggered, obs1 |-> -1, obs2 |-> -1,
               msgs |-> <<>>, running |-> TRUE]
    /\ winNext' = IF InFlight /\ ~winOver THEN 1 ELSE 0
    /\ Silent
    /\ UNCHANGED << Config, sharedVars, readerVars, oldSectionHits,
                    hitsPerSecond, updateTicker, snapshots, observed,
                    winCur, winOver >>

\* A first condition that does not look at the flag.
ChtIf1_IgnoresFlag ==
    /\ pcS = "cht_if1"
    /\ chk' = [chk EXCEPT !.obs1 = totalTraffic]
    /\ pcS' = IF ExceedsThreshold(totalTraffic, Config.HighTrafficThreshold)
              THEN "cht_rate" ELSE "cht_if2"
    /\ Silent
    /\ UNCHANGED << Config, sharedVars, readerVars, oldSectionHits,
                    hitsPerSecond, tickVars,
                    snapshots, observed, windowGhosts >>

\* checkHighTraffic, lines 170-171: the first condition reads totalTraffic.
ChtIf1 ==
    /\ pcS = "cht_if1"
    /\ chk' = [chk EXCEPT !.obs1 = totalTraffic]
    /\ pcS' = IF /\ ExceedsThreshold(totalTraffic, Config.HighTrafficThreshold)
                 /\ ~isHighTrafficTriggered
              THEN "cht_rate" ELSE "cht_if2"
    /\ Silent
    /\ UNCHANGED << Config, sharedVars, readerVars, oldSectionHits,
                    hitsPerSecond, tickVars,
                    snapshots, observed, windowGhosts >>

\* checkHighTraffic, lines 173-174: read totalTraffic again, for the rate.
ChtRate ==
    /\ pcS = "cht_rate"
    /\ hitsPerSecond' = HitsPerSecond(totalTraffic, Config.HighTrafficInterval)
    /\ pcS' = "cht_trigger"
    /\ Silent
    /\ UNCHANGED << Config, sharedVars, readerVars, oldSectionHits, chk,
                    tickVars, snapshots, observed, windowGhosts >>

\* checkHighTraffic, lines 176-180: write the warning with the rate computed
\* before.
ChtTrigger ==
    /\ pcS = "cht_trigger"
    /\ Emit([kind |-> "triggered", rate |-> hitsPerSecond])
    /\ hitsPerSecond' = 0
    /\ chk' = [chk EXCEPT !.msgs = Append(@, "triggered")]
    /\ pcS' = "cht_set"
    /\ UNCHANGED << Config, sharedVars, readerVars, oldSectionHits, tickVars,
                    snapshots, observed, windowGhosts >>

\* checkHighTraffic, line 182: logger.isHighTrafficTriggered = true.
ChtSetFlag ==
    /\ pcS = "cht_set"
    /\ isHighTrafficTriggered' = TRUE
    /\ pcS' = "cht_if2"
    /\ Silent
    /\ UNCHANGED << Config, sectionHitsLock, sectionHits, totalTraffic,
                    readerVars, oldSectionHits, chk, hitsPerSecond, tickVars,
                    snapshots, observed, windowGhosts >>

\* checkHighTraffic, lines 185-186: the second condition reads totalTraffic.
ChtIf2 ==
    /\ pcS = "cht_if2"
    /\ chk' = [chk EXCEPT !.obs2 = totalTraffic]
    /\ pcS' = IF /\ WithinThreshold(totalTraffic, Config.HighTrafficThreshold)
                 /\ isHighTrafficTriggered
              THEN "cht_resolve" ELSE "cht_reset"
    /\ Silent
    /\ UNCHANGED << Config, sharedVars, readerVars, oldSectionHits,
                    hitsPerSecond, tickVars, snapshots, observed,
                    windowGhosts >>

\* checkHighTraffic, lines 188-191: write the warning.
ChtResolve ==
    /\ pcS = "cht_resolve"
    /\ Emit([kind |-> "resolved"])
    /\ chk' = [chk EXCEPT !.msgs = Append(@, "resolved")]
    /\ pcS' = "cht_clear"
    /\ UNCHANGED << Config, sharedVars, readerVars, oldSectionHits,
                    hitsPerSecond, tickVars, snapshots, observed,
                    windowGhosts >>

\* checkHighTraffic, line 193: logger.isHighTrafficTriggered = false.
ChtClearFlag ==
    /\ pcS = "cht_clear"
    /\ isHighTrafficTriggered' = FALSE
    /\ pcS' = "cht_reset"
    /\ Silent
    /\ UNCHANGED << Config, sectionHitsLock, sectionHits, totalTraffic,
                    readerVars, oldSectionHits, chk, hitsPerSecond, tickVars,
                    snapshots, observed, windowGhosts >>

\* checkHighTraffic, line 196: logger.totalTraffic = 0.  The reset closes a
\* window: winCur held every line whose ingestion overlapped it; the lines
\* are no longer counted once a window has exceeded the threshold.
ChtReset ==
    /\ pcS = "cht_reset"
    /\ totalTraffic' = 0
    /\ observed' = observed + chk.obs2
    /\ chk' = NoCheck
    /\ winOver' = (winOver \/ winCur > Config.HighTrafficThreshold)
    /\ winCur' = IF winOver' THEN 0 ELSE winNext
    /\ winNext' = 0
    /\ pcS' = "select"
    /\ Silent
    /\ UNCHANGED << Config, sectionHitsLock, sectionHits,
                    isHighTrafficTriggered, readerVars, oldSectionHits,
                    hitsPerSecond, tickVars, snapshots >>

\* A stop that does not wait for the goroutine: end with a buffer, so that
\* the send in stopWatcher completes at once.
RecvEnd_Buffered ==
    /\ pcR \in {"stop_return", "stop_panic"}
    /\ pcR' = IF pcR = "stop_return" THEN "returned" ELSE "crashed"
    /\ Silent
    /\ UNCHANGED << Config, sharedVars, nread, line, entry, reg, warned, schedVars,
                    tickVars, snapshots, observed, windowGhosts >>

\* A select that serves end only when no tick waits.
RecvEnd_AfterTicks ==
    /\ pcS = "select"
    /\ ~updateTicker /\ ~highTrafficTicker
    /\ pcR \in {"stop_return", "stop_panic"}
    /\ pcS' = "done"
    /\ pcR' = IF pcR = "stop_return" THEN "returned" ELSE "crashed"
    /\ Silent
    /\ UNCHANGED << Config, sharedVars, nread, line, entry, reg, warned,
                    oldSectionHits, chk, hitsPerSecond, tickVars, snapshots, observed,
                    windowGhosts >>

\* watch, lines 118-119 and 124-126: the send on end in stopWatcher meets the
\* receive in select.  The goroutine returns; Run returns, or its panic goes
\* on to end the process.
RecvEnd ==
    /\ pcS = "select"
    /\ pcR \in {"stop_return", "stop_panic"}
    /\ pcS' = "done"
    /\ pcR' = IF pcR = "stop_return" THEN "returned" ELSE "crashed"
    /\ Silent
    /\ UNCHANGED << Config, sharedVars, nread, line, entry, reg, warned,
                    oldSectionHits, chk, hitsPerSecond, tickVars, snapshots, observed,
                    windowGhosts >>

Scheduler ==
    \/ RecvUpdate
    \/ PuLock
    \/ PuSwap
    \/ PuUnlock
    \/ PuReport
    \/ RecvHighTraffic
    \/ ChtIf1
    \/ ChtRate
    \/ ChtTrigger
    \/ ChtSetFlag
    \/ ChtIf2
    \/ ChtResolve
    \/ ChtClearFlag
    \/ ChtReset
    \/ RecvEnd

Timers == TickUpdate \/ TickHighTraffic

Next == Reader \/ Scheduler \/ Timers

Spec == Init /\ [][Next]_vars

\* Go's select picks at random among the cases that are ready, so a case
\* that is ready again and again is taken: strong fairness of the receive
\* from end.  The goroutine of watch is scheduled: weak fairness of its steps.
LiveSpec == Spec /\ WF_vars(Scheduler) /\ SF_vars(RecvEnd)

\* ------------------------------------------------- the parser, by itself

\* parseLineEntry applied to the line Run reads first: every path of up to
\* MaxPathLen bytes out of '/', 'a' and 'b', the sizes "5", "12", "05", the
\* largest int, the int after it, "-" and "a", in a line that has or has not
\* the shape of the other fields.
RECURSIVE PathsOfLen(_)
PathsOfLen(n) ==
    IF n = 0 THEN { << >> }
    ELSE { <<c>> \o p : c \in {Slash, ChA, ChB}, p \in PathsOfLen(n - 1) }

ParsePaths == UNION { PathsOfLen(n) : n \in 0..MaxPathLen }

\* The digit bytes that spell the largest int, and the int after it.
MaxIntText == [i \in 1..Len(MaxInt) |-> Digit0 + MaxInt[i]]
OverMaxIntText == [MaxIntText EXCEPT ![Len(MaxInt)] = Digit0 + 8]

ParseSizes ==
    { <<Digit0 + 5>>, <<Digit0 + 1, Digit0 + 2>>, <<Digit0, Digit0 + 5>>,
      MaxIntText, OverMaxIntText, <<Dash>>, <<ChA>> }

ParseLines ==
    { Line(p, z, c) : p \in ParsePaths, z \in ParseSizes, c \in BOOLEAN }

ParseInit == Init

ParseNext == \E l \in ParseLines : ReadLine(l)

ParseSpec == ParseInit /\ [][ParseNext]_vars

\* ------------------------------------------------- the report, by itself

\* printUpdate applied to snapshots of up to three sections, each with up to
\* MaxCount hits, for update intervals of 1, 2, 3, 8 and 200 seconds (with the
\* last two, one hit is halfway between two hundredths: 0.125 and 0.005).
ReportSections == { <<Slash, ChA>>, <<Slash, ChB>>, <<Slash, ChC>> }

ReportSnapshots ==
    UNION { [d -> 1..MaxCount] : d \in SUBSET ReportSections }

ReportIntervals == { Second, 2 * Second, 3 * Second, 8 * Second, 200 * Second }

\* printUpdate at line 137: the snapshot is taken, the lock released, the
\* reader waits for its next line, no traffic check is configured.
ReportInit ==
    /\ Config \in [UpdateInterval : ReportIntervals, HighTrafficInterval : {0},
                   HighTrafficThreshold : {0}]
    /\ sectionHitsLock = "free"
    /\ sectionHits = EmptyMap
    /\ oldSectionHits \in ReportSnapshots
    /\ totalTraffic = MapSum(oldSectionHits)
    /\ isHighTrafficTriggered = FALSE
    /\ updateTicker = FALSE
    /\ highTrafficTicker = FALSE
    /\ pcR = "read"
    /\ nread = MapSum(oldSectionHits)
    /\ line = NoLine
    /\ entry = NilEntry
    /\ reg = 0
    /\ pcS = "pu_report"
    /\ out = NoMessage
    /\ lastAlert = "none"
    /\ warned = 0
    /\ chk = NoCheck
    /\ hitsPerSecond = 0
    /\ snapshots = MapSum(oldSectionHits)
    /\ observed = 0
    /\ winCur = MapSum(oldSectionHits)
    /\ winNext = 0
    /\ winOver = FALSE

ReportNext == PuReport

ReportSpec == ReportInit /\ [][ReportNext]_vars

\* ---------------------------------------------------------------- claims

Threshold == Config.HighTrafficThreshold

\* Lines whose totalTraffic++ (line 64) has completed.
Incremented == IF InFlight THEN nread - 1 ELSE nread

\* Lines whose sectionHits[...]++ (line 66) has completed: every line read
\* but the one being ingested, if any.
Counted ==
    IF pcR \in {"inc_load", "inc_store", "lock", "hit_load", "hit_store",
                "stop_panic", "crashed"}
    THEN nread - 1 ELSE nread

\* The line being ingested did not parse.
Malformed ==
    /\ pcR \in {"inc_load", "inc_store", "lock", "hit_load"}
    /\ ~entry.ok

\* The line being ingested is in totalTraffic and not yet in sectionHits.
HalfCounted ==
    /\ pcR \in {"lock", "hit_load", "hit_store"}
    /\ entry.ok

\* C1: an execution of checkHighTraffic writes at most one message; it
\* writes "triggered" and sets the flag exactly when the total read at line
\* 170 is > threshold and the flag was unset; it writes "resolved" and
\* clears the flag exactly when the total read at line 185 is <= threshold
\* and the flag was set; otherwise it writes nothing and the flag is as it
\* was.  Stated where the execution has only the reset left to do.
C1_TrafficCheckStateMachine ==
    pcS = "cht_reset" =>
        /\ Len(chk.msgs) <= 1
        /\ (chk.msgs = <<"triggered">>) <=> (chk.obs1 > Threshold /\ ~chk.flag0)
        /\ (chk.msgs = <<"resolved">>) <=> (chk.obs2 <= Threshold /\ chk.flag0)
        /\ (chk.msgs = <<"triggered">>) => isHighTrafficTriggered
        /\ (chk.msgs = <<"resolved">>) => ~isHighTrafficTriggered
        /\ (chk.msgs = <<>>) => (isHighTrafficTriggered = chk.flag0)

\* C1, witness: a check that found the flag set and the total within the
\* threshold has written "resolved".
C1_Witness ==
    /\ pcS = "cht_reset"
    /\ chk.flag0
    /\ chk.msgs = <<"resolved">>
    /\ chk.obs2 = Threshold

\* C2: if no window between traffic checks holds more lines than the
\* threshold, no "triggered" warning is written.  A window holds every line
\* whose ingestion overlaps it, so the premise is at its strongest.
C2_NoTriggerWithinThreshold ==
    (lastAlert # "none") => (winOver \/ winCur > Threshold)

\* C3: the steps Run takes for a line that does not parse leave
\* sectionHits, totalTraffic and the flag as they were, one WARNING written.
C3_MalformedLineLeavesState ==
    [][ (Malformed /\ pcR' # pcR) =>
            /\ warned = 1
            /\ sectionHits' = sectionHits
            /\ totalTraffic' = totalTraffic
            /\ isHighTrafficTriggered' = isHighTrafficTriggered ]_vars

\* C4: a line that does not parse does not end Run: the reader never panics.
C4_MalformedLineNonFatal ==
    pcR \notin {"stop_panic", "crashed"}

\* C5: the counts of all snapshots printUpdate has taken, plus the counts of
\* the live map, are the lines whose section increment has completed.
C5_NoHitLostOrDoubled ==
    snapshots + MapSum(sectionHits) = Counted

\* C5, witness: hits of two windows, one in a snapshot and one in the live
\* map, while the reader ingests a further line.
C5_Witness ==
    /\ snapshots >= 1
    /\ MapSum(sectionHits) >= 1
    /\ pcR = "hit_load"
    /\ pcS = "pu_lock"

\* C6: the totals the completed traffic checks saw, plus the running total,
\* are the lines whose increment of totalTraffic has completed.
C6_EveryLineInOneWindow ==
    observed + totalTraffic = Incremented

\* C7: every access to sectionHits, totalTraffic and the flag is made with
\* sectionHitsLock held, and the reader and the scheduler are never both at
\* an access to totalTraffic.
C7_SharedStateUnderLock ==
    /\ pcR \in {"inc_load", "inc_store", "hit_load", "hit_store"}
          => sectionHitsLock = "reader"
    /\ pcS \in {"pu_swap", "cht_if1", "cht_rate", "cht_set", "cht_if2",
                "cht_clear", "cht_reset"}
          => sectionHitsLock = "scheduler"
    /\ ~(/\ pcR \in {"inc_load", "inc_store"}
         /\ pcS \in {"cht_if1", "cht_rate", "cht_if2", "cht_reset"})

\* C8: no step of a report that reads or resets the counters is taken while
\* a line is counted in totalTraffic and not yet in sectionHits.
C8_IngestAtomicForReports ==
    [][ HalfCounted =>
          ~(/\ pcS \in {"pu_swap", "cht_if1", "cht_rate", "cht_if2",
                        "cht_reset"}
            /\ pcS' # pcS) ]_vars

\* C9: once Run has returned, the goroutine of watch has left its loop, and
\* no step writes to the output.
C9_StopObservedBeforeReturn ==
    pcR = "returned" => (pcS = "done" /\ out = NoMessage)

\* C9, witness: Run has returned while a tick waits in each channel.
C9_Witness ==
    /\ pcR = "returned"
    /\ updateTicker
    /\ highTrafficTicker

\* C10: after end-of-stream, Run returns.
C10_RunReturnsAfterEOF ==
    (pcR = "stop_return") ~> (pcR = "returned")

\* C10, witness: Run has returned with both intervals zero, every line read.
C10_Witness ==
    /\ pcR = "returned"
    /\ Config.UpdateInterval = 0
    /\ Config.HighTrafficInterval = 0
    /\ nread = MaxLines

\* C11: a trigger whose interval is zero never fires.  With UpdateInterval = 0
\* printUpdate never runs and no "busiest sections" or "no hits" message is
\* written; with HighTrafficInterval = 0 checkHighTraffic never runs, no
\* "triggered" or "resolved" message is written and the flag stays false.
C11_ZeroIntervalNeverFires ==
    /\ Config.UpdateInterval = 0 =>
          /\ ~updateTicker
          /\ pcS \notin {"pu_lock", "pu_swap", "pu_unlock", "pu_report"}
          /\ out.kind \notin {"busiest", "nohits"}
          /\ snapshots = 0
    /\ Config.HighTrafficInterval = 0 =>
          /\ ~highTrafficTicker
          /\ pcS \notin {"cht_if1", "cht_rate", "cht_trigger", "cht_set",
                         "cht_if2", "cht_resolve", "cht_clear", "cht_reset"}
          /\ out.kind \notin {"triggered", "resolved"}
          /\ lastAlert = "none"
          /\ ~isHighTrafficTriggered
          /\ observed = 0

\* C11, witness: with the update report disabled and every line ingested, the
\* traffic check, unaffected, writes its "triggered" message.
C11_Witness ==
    /\ Config.UpdateInterval = 0
    /\ Config.HighTrafficInterval > 0
    /\ nread = MaxLines
    /\ totalTraffic = MaxLines
    /\ out.kind = "triggered"

\* C12, as stated: the alert messages alternate, beginning with "triggered".
\* A step writes "triggered" only when no alert was written yet or the last
\* one was "resolved"; a step writes "resolved" only when the last alert was
\* "triggered"; and the flag is set exactly when the last alert written is
\* "triggered".
C12_AlertsAlternate ==
    [][ /\ out'.kind = "triggered" => lastAlert \in {"none", "resolved"}
        /\ out'.kind = "resolved" => lastAlert = "triggered"
        /\ isHighTrafficTriggered <=> (lastAlert = "triggered")
        /\ isHighTrafficTriggered' <=> (lastAlert' = "triggered") ]_vars

\* checkHighTraffic has written an alert and not yet stored the flag.
FlagStoreDue == pcS \in {"cht_set", "cht_clear"}

\* C12, amended: the alert messages alternate, beginning with "triggered",
\* and the flag is set exactly when the last alert written is "triggered",
\* except between the write of an alert and the store of the flag that
\* follows it, where the flag still has the value from before the alert.
C12_AlertsAlternateFlagFollows ==
    [][ /\ out'.kind = "triggered" => lastAlert \in {"none", "resolved"}
        /\ out'.kind = "resolved" => lastAlert = "triggered"
        /\ ~FlagStoreDue => (isHighTrafficTriggered <=> (lastAlert = "triggered"))
        /\ ~FlagStoreDue' =>
              (isHighTrafficTriggered' <=> (lastAlert' = "triggered"))
        /\ FlagStoreDue' =>
              (isHighTrafficTriggered' <=> (lastAlert' # "triggered")) ]_vars

\* C12, witness: after a "triggered" and a "resolved" alert, the reader has
\* written the WARNING of a line while the store that clears the flag is due.
C12_Witness ==
    /\ pcS = "cht_clear"
    /\ chk.flag0
    /\ lastAlert = "resolved"
    /\ isHighTrafficTriggered
    /\ out.kind = "warning"

\* C13: every update report resets the window.  The swap of printUpdate
\* leaves the live map empty and takes a snapshot that holds exactly the lines
\* counted since the previous snapshot; a report of a snapshot without a line
\* writes "no hits to server", and a report of any other snapshot does not.
C13_ReportResetsWindow ==
    [][ /\ (pcS = "pu_swap" /\ pcS' = "pu_unlock") =>
              /\ sectionHits' = EmptyMap
              /\ MapSum(oldSectionHits') = Counted - snapshots
        /\ (pcS = "pu_report" /\ pcS' = "select") =>
              ((MapSum(oldSectionHits) = 0) <=> (out' = [kind |-> "nohits"]))
      ]_vars

\* C13, witness: after a snapshot that held lines, a report of a window
\* without a line has written "no hits to server".
C13_Witness ==
    /\ out = [kind |-> "nohits"]
    /\ snapshots > 0
    /\ pcS = "select"

\* Largest count of a snapshot, and the sections that hold it.
MaxOf(m) == CHOOSE n \in 0..MaxCount + MaxLines :
               /\ \A k \in DOMAIN m : m[k] <= n
               /\ (DOMAIN m # {}) => (\E k \in DOMAIN m : m[k] = n)
               /\ (DOMAIN m = {}) => n = 0
Busiest(m) == { k \in DOMAIN m : m[k] = MaxOf(m) }

\* a comes before b in the lexicographic order of byte strings.
LexBefore(a, b) ==
    \E k \in 1..Len(b) :
       /\ k <= Len(a) + 1
       /\ \A i \in 1..(k - 1) : a[i] = b[i]
       /\ (k = Len(a) + 1) \/ (a[k] < b[k])

\* C14: the report of a non-empty snapshot lists exactly the sections whose
\* count is the maximum of the snapshot, each once, in ascending
\* lexicographic order, whatever the order in which range visits the map.
C14_ReportListsBusiestSorted ==
    [][ (pcS = "pu_report" /\ oldSectionHits # EmptyMap) =>
          /\ out'.kind = "busiest"
          /\ Len(out'.sections) = Cardinality(Busiest(oldSectionHits))
          /\ { out'.sections[i] : i \in DOMAIN out'.sections }
                = Busiest(oldSectionHits)
          /\ \A i, j \in DOMAIN out'.sections :
                i < j => LexBefore(out'.sections[i], out'.sections[j])
      ]_vars

\* C14, witness: a report has listed three tied sections.
C14_Witness ==
    /\ out.kind = "busiest"
    /\ out.sections = << <<Slash, ChA>>, <<Slash, ChB>>, <<Slash, ChC>> >>

\* C16: the rate of the report is the maximum count of the snapshot times one
\* second over UpdateInterval, to the nearest hundredth, and not the total of
\* the snapshot; with UpdateInterval of one second it is the maximum itself.
C16_RateIsMaxPerSecond ==
    [][ (pcS = "pu_report" /\ oldSectionHits # EmptyMap) =>
          LET exact == 100 * MaxOf(oldSectionHits) * Second
              shown == out'.rate * Config.UpdateInterval
          IN /\ 2 * (shown - exact) <= Config.UpdateInterval
             /\ 2 * (exact - shown) <= Config.UpdateInterval
             /\ Config.UpdateInterval = Second =>
                   out'.rate = 100 * MaxOf(oldSectionHits)
      ]_vars

\* C16, witness: with UpdateInterval of one second a report has shown 2.00
\* hits per second for one busiest section.
C16_Witness ==
    /\ Config.UpdateInterval = Second
    /\ out.kind = "busiest"
    /\ out.sections = << <<Slash, ChA>> >>
    /\ out.rate = 200

\* The bytes of s before its first '/', and the path without a leading '/'.
FirstSegment(s) ==
    LET end == CHOOSE i \in 1..(Len(s) + 1) :
                  /\ (i = Len(s) + 1) \/ (s[i] = Slash)
                  /\ \A j \in 1..(i - 1) : s[j] # Slash
    IN SubSeq(s, 1, end - 1)
HasLeadingSlash(path) == path # << >> /\ path[1] = Slash
AfterLeadingSlash(path) == IF HasLeadingSlash(path) THEN Tail(path) ELSE path

\* The line read has the shape of the Common Log Format apart from its path,
\* and an integer size.
WellFormedButPath ==
    /\ pcR = "inc_load"
    /\ line.clf
    /\ line.size \in { <<Digit0 + 5>>, <<Digit0 + 1, Digit0 + 2>> }

\* C15: the section of a line that parses is the first path
\* segment after the leading slash, without the slash, and a line whose path
\* is "/" parses, with the empty section.
C15_SectionWithoutSlash ==
    /\ (pcR = "inc_load" /\ entry.ok) =>
          entry.Section = FirstSegment(AfterLeadingSlash(line.path))
    /\ (WellFormedButPath /\ line.path = <<Slash>>) =>
          (entry.ok /\ entry.Section = << >>)

\* C18: a line that matches the pattern and whose size is "-" parses, with
\* size 0; of the lines whose other fields match, those whose size is an
\* integer (here 5, 12 or 05) or "-" parse, and the one whose size is
\* neither ("a") does not.
C18_DashSizeParsesAsZero ==
    (pcR = "inc_load" /\ line.clf /\ MatchPath(line.path).matched) =>
       /\ line.size \in { <<Digit0 + 5>>, <<Digit0 + 1, Digit0 + 2>>,
                          <<Digit0, Digit0 + 5>>, <<Dash>> } => entry.ok
       /\ line.size = <<ChA>> => ~entry.ok
       /\ line.size = <<Dash>> => (entry.ok /\ entry.Size = Zero)

\* C17: when Run returns at end-of-stream, every line read from the input
\* has been parsed and counted once: the lines that a newline ended are all
\* in the section counts taken or live, and ReadBytes has not returned, with
\* the end-of-stream, the bytes of a last line that Run leaves unparsed.
C17_EveryLineIngested ==
    pcR \in {"stop_return", "returned"} =>
       /\ snapshots + MapSum(sectionHits) = nread
       /\ line = NoLine

\* C19: the system never deadlocks.  The reader does not hold
\* sectionHitsLock when it sends on the channel end, the scheduler does not
\* hold it when it writes its report or receives from a channel, and until
\* Run has ended the reader or the scheduler can take a step.
C19_NeverDeadlocks ==
    /\ pcR \in {"stop_return", "stop_panic"} => sectionHitsLock # "reader"
    /\ pcS \in {"select", "pu_report"} => sectionHitsLock # "scheduler"
    /\ pcR \notin {"returned", "crashed"} => ENABLED (Reader \/ Scheduler)

\* The steps of the update report, and those of the traffic check.
InPrintUpdate == pcS \in {"pu_lock", "pu_swap", "pu_unlock", "pu_report"}
InCheckHighTraffic ==
    pcS \in {"cht_if1", "cht_rate", "cht_trigger", "cht_set", "cht_if2",
             "cht_resolve", "cht_clear", "cht_reset"}

\* C20: the two reports are independent.  No step of printUpdate changes
\* totalTraffic or the flag, and no step of checkHighTraffic changes the
\* section counters, live or in a snapshot.
C20_ReportsIndependent ==
    [][ /\ (InPrintUpdate /\ pcS' # pcS) =>
              /\ totalTraffic' = totalTraffic
              /\ isHighTrafficTriggered' = isHighTrafficTriggered
        /\ (InCheckHighTraffic /\ pcS' # pcS) =>
              /\ sectionHits' = sectionHits
              /\ oldSectionHits' = oldSectionHits
      ]_vars

\* C20, witness: an update report has been written while the total is
\* above the threshold and the flag is set, and lines are counted since.
C20_Witness ==
    /\ out.kind = "busiest"
    /\ isHighTrafficTriggered
    /\ totalTraffic > Threshold
    /\ sectionHits = EmptyMap
    /\ snapshots > 0

====
